---- MODULE Spec2Model ----
(***************************************************************************)
(* A model of MultimodalLiveClient (src/src/config/env-config.ts) and of   *)
(* the useLiveAPI hook (src/unnamed/part_000): the websocket lifecycle,    *)
(* the asynchronous receive() pipeline with its tool-call validation and   *)
(* its audio/content demultiplexing.                                       *)
(*                                                                         *)
(* Strings are atoms; String.includes over JSON.stringify(x) is modelled   *)
(* by the set of quote-delimited texts of x (JsonLeaves...) and the table  *)
(* Occ of the patterns each text contains.  No pattern of the code holds   *)
(* a quote or a backslash, and JSON.stringify without indentation puts a   *)
(* quote between any two texts, so a pattern occurs in the serialization   *)
(* iff it occurs inside one text.                                          *)
(***************************************************************************)
EXTENDS Integers, Sequences, FiniteSets, TLC

VARIABLES
    ws,       \* this.ws: the owned socket handle, 0 for null
    config,   \* this.config: "null" or "cfg"
    sock,     \* the WebSocket objects created by connect, in creation order
    tasks,    \* the receive() invocations, in arrival order
    peer,     \* the remote peer: the frames it may send and how many more
    hook,     \* the React state: useLiveAPI's connected and config, ControlTray's
              \* pdfData and whether its effect on pdfData is still to run
    last      \* the handler that ran in the last step, its argument and result,
              \* and the message of the error it threw, if any

vars == <<ws, config, sock, tasks, peer, hook, last>>

(***************************************************************************)
(* Bounds of the model: MaxLoad bounds the sockets created plus the frames *)
(* received in one run, MaxCalls the calls of a tool-call frame, MaxParts  *)
(* the parts of a model turn.                                              *)
(***************************************************************************)
MaxLoad == 3
MaxCalls == 2
MaxParts == 2

(***************************************************************************)
(* JSON values                                                             *)
(***************************************************************************)
JStr(s) == [ty |-> "string", s |-> s, m |-> <<>>]
JNum(s) == [ty |-> "number", s |-> s, m |-> <<>>]
JNull == [ty |-> "null", s |-> "null", m |-> <<>>]
JArr == [ty |-> "array", s |-> "", m |-> <<>>]
JObj(m) == [ty |-> "object", s |-> "", m |-> m]

\* typeof v === 'object' && v && !Array.isArray(v)
IsPlainObject(v) == v.ty = "object"

\* JavaScript truthiness, as `!args.pdfUri` and `if (b64)` use it
Truthy(v) ==
    CASE v.ty = "string" -> v.s # ""
      [] v.ty = "number" -> v.s # "0"
      [] v.ty = "null" -> FALSE
      [] v.ty = "undefined" -> FALSE
      [] OTHER -> TRUE

JUndefined == [ty |-> "undefined", s |-> "undefined", m |-> <<>>]

\* obj[key], undefined when the key is absent
Prop(obj, key) == IF key \in DOMAIN obj.m THEN obj.m[key] ELSE JUndefined

\* the string a template literal `${v}` makes of v
ToStr(v) ==
    CASE v.ty = "object" -> "[object Object]"
      [] OTHER -> v.s

(***************************************************************************)
(* String.includes on the texts of the model                               *)
(***************************************************************************)
Markers == {"executableCode", "print(", "PYTHON", "code>"}

InvalidPatterns ==
    {"print(", "pdf_lookup(", "default_api", "queries=", "question=", "uri=",
     "function(", ".lookup(", "executableCode", "PYTHON", "python",
     "console.log", "google_search", "search(", "code>", "pre>", "h5>",
     "executableCode: PYTHON", "code", "pre"}

\* the patterns of the code that occur in a text of the model
Occ(s) ==
    CASE s = "print(1)" -> {"print("}
      [] s = "python.pdf" -> {"python"}
      [] s = "PYTHON" -> {"PYTHON"}
      [] s = "<code>x</code>" -> {"code>", "code"}
      [] OTHER -> {}

\* JSON.stringify(x).includes(p), x given by its texts
Includes(leaves, p) == \E s \in leaves : p \in Occ(s)

\* the texts (keys and string values) of JSON.stringify(v)
JsonLeaves(v) ==
    CASE v.ty = "string" -> {v.s}
      [] v.ty = "object" ->
            DOMAIN v.m \cup {v.m[k].s : k \in {x \in DOMAIN v.m : v.m[x].ty = "string"}}
      [] OTHER -> {}

CallLeaves(fc) == {"id", "name", "args", fc.id, fc.name} \cup JsonLeaves(fc.args)

PartLeaves(p) ==
    IF "inlineData" \in DOMAIN p
    THEN {"inlineData", "mimeType", "data", p.inlineData.mimeType, p.inlineData.data}
    ELSE {"text", p.text}

Range(s) == {s[i] : i \in DOMAIN s}

PartsLeaves(parts) == UNION {PartLeaves(p) : p \in Range(parts)}

\* the texts of the whole inbound message
FrameLeaves(f) ==
    f.keys
    \cup (IF "toolCall" \in f.keys
          THEN {"functionCalls"} \cup UNION {CallLeaves(fc) : fc \in Range(f.calls)}
          ELSE {})
    \cup (IF f.note # "" THEN {"note", f.note} ELSE {})
    \cup (IF "toolCallCancellation" \in f.keys THEN {"ids"} \cup Range(f.ids) ELSE {})
    \cup (IF "serverContent" \in f.keys
          THEN (IF f.sc.hasTurn THEN {"modelTurn", "parts"} \cup PartsLeaves(f.sc.parts) ELSE {})
               \cup (IF f.sc.turnComplete THEN {"turnComplete"} ELSE {})
               \cup (IF f.sc.interrupted THEN {"interrupted"} ELSE {})
          ELSE {})

HasCodeSyntax(leaves) == \E p \in Markers : Includes(leaves, p)

(***************************************************************************)
(* Inbound message classification (receive, in this order)                 *)
(***************************************************************************)
IsToolCallMessage(f) == "toolCall" \in f.keys
IsToolCallCancellationMessage(f) == "toolCallCancellation" \in f.keys
IsSetupCompleteMessage(f) == "setupComplete" \in f.keys
IsServerContentMessage(f) == "serverContent" \in f.keys
IsInterrupted(sc) == sc.interrupted
IsTurnComplete(sc) == sc.turnComplete
IsModelTurn(sc) == sc.hasTurn

(***************************************************************************)
(* What a receive() invocation does, in order: the items of its trace      *)
(***************************************************************************)
SendItem(h, msg) == [k |-> "send", h |-> h, msg |-> msg]
EmitItem(ev, data) == [k |-> "emit", ev |-> ev, data |-> data]
FetchItem(uri) == [k |-> "fetch", uri |-> uri]
ThrowItem == [k |-> "throw", what |-> "WebSocket is not connected"]

\* a ToolResponse frame that keeps the first entry only
ToolResponseFirstOnly(entries) ==
    [toolResponse |-> [functionResponses |-> SubSeq(entries, 1, 1)]]

\* sendToolResponse(toolResponse) -> _sendDirect: the frame written
ToolResponseMessage(entries) == [toolResponse |-> [functionResponses |-> entries]]

\* send(parts, turnComplete = true) -> _sendDirect: the frame written
ClientContentMessage(parts, turnComplete) ==
    [clientContent |-> [turns |-> <<[role |-> "user", parts |-> parts]>>,
                        turnComplete |-> turnComplete]]

CodeSyntaxResponse ==
    [error |-> "CODE SYNTAX DETECTED: Must use pure JSON format",
     example |-> [name |-> "pdf_lookup", args |-> [pdfUri |-> "uri_here"]]]

InvalidFormatResponse ==
    [error |-> "INVALID FORMAT: Use only this JSON structure:",
     example |-> [name |-> "pdf_lookup", args |-> [pdfUri |-> "your_uri_here"]]]

InvalidStructureResponse ==
    [error |-> "INVALID STRUCTURE: Only pdfUri parameter is allowed",
     example |-> [name |-> "pdf_lookup", args |-> [pdfUri |-> "your_uri_here"]]]

\* the catch block answering with an empty text instead of the error entry
FetchFailedAsText == [text |-> ""]

FetchFailedResponse ==
    [error |-> "Failed to fetch PDF content. Remember to use JSON format",
     example |-> [name |-> "pdf_lookup", args |-> [pdfUri |-> "your_uri_here"]]]

ErrorMessagePart == [text |-> "ERROR: Invalid syntax detected. You must use this exact JSON format"]

(***************************************************************************)
(* Tool calls: the whole-frame rejection and the per-call filter           *)
(***************************************************************************)
\* response.toolCall.functionCalls[0]?.id || 'error'
FirstIdOrError(calls) ==
    IF Len(calls) > 0 /\ calls[1].id # "" THEN calls[1].id ELSE "error"

WholeFrameRejection(f) ==
    <<[id |-> FirstIdOrError(f.calls), response |-> CodeSyntaxResponse]>>

\* the filter callback without the name check
VerdictAnyName(fc) ==
    IF ~IsPlainObject(fc.args) THEN "badargs"
    ELSE IF \E p \in InvalidPatterns : Includes(JsonLeaves(fc.args), p) THEN "pattern"
    ELSE IF ~Truthy(Prop(fc.args, "pdfUri")) \/ Cardinality(DOMAIN fc.args.m) # 1
         THEN "structure"
    ELSE "valid"

\* the filter callback without the check of the args' structure
VerdictNoStructureCheck(fc) ==
    IF fc.name # "pdf_lookup" THEN "skip"
    ELSE IF ~IsPlainObject(fc.args) THEN "badargs"
    ELSE IF \E p \in InvalidPatterns : Includes(JsonLeaves(fc.args), p) THEN "pattern"
    ELSE "valid"

\* the outcome of the filter callback for one call
Verdict(fc) ==
    IF fc.name # "pdf_lookup" THEN "skip"
    ELSE IF ~IsPlainObject(fc.args) THEN "badargs"
    ELSE IF \E p \in InvalidPatterns : Includes(JsonLeaves(fc.args), p) THEN "pattern"
    ELSE IF ~Truthy(Prop(fc.args, "pdfUri")) \/ Cardinality(DOMAIN fc.args.m) # 1
         THEN "structure"
    ELSE "valid"

\* the corrective entry the filter callback sends for a rejected call
RejectionEntry(fc, verdict) ==
    [id |-> fc.id,
     response |-> IF verdict = "pattern" THEN InvalidFormatResponse
                  ELSE InvalidStructureResponse]

\* functionCalls.filter(...) from call i on, with this.ws = w: the sends made,
\* the calls kept, and whether a send threw (which ends receive)
RECURSIVE FilterCalls(_, _, _, _)
FilterCalls(calls, i, w, acc) ==
    IF i > Len(calls) THEN acc
    ELSE LET fc == calls[i]
             v == Verdict(fc)
         IN  IF v \in {"pattern", "structure"}
             THEN IF w = 0
                  THEN [acc EXCEPT !.threw = TRUE]
                  ELSE FilterCalls(calls, i + 1, w,
                         [acc EXCEPT !.trace = Append(@,
                             SendItem(w, ToolResponseMessage(<<RejectionEntry(fc, v)>>)))])
             ELSE IF v = "valid"
             THEN FilterCalls(calls, i + 1, w, [acc EXCEPT !.valid = Append(@, fc)])
             ELSE FilterCalls(calls, i + 1, w, acc)

\* the resource fetchPdfText requests for a call
FetchUri(fc) == ToStr(Prop(fc.args, "pdfUri"))

\* the synchronous part of receive for a tool call, up to the await of Promise.all
ToolCallPass(f, w) ==
    IF HasCodeSyntax(FrameLeaves(f))
    THEN IF w = 0
         THEN [trace |-> <<ThrowItem>>, stage |-> "threw", valid |-> <<>>]
         ELSE [trace |-> <<SendItem(w, ToolResponseMessage(WholeFrameRejection(f)))>>,
               stage |-> "done", valid |-> <<>>]
    ELSE LET r == FilterCalls(f.calls, 1, w, [trace |-> <<>>, valid |-> <<>>, threw |-> FALSE])
         IN  IF r.threw
             THEN [trace |-> Append(r.trace, ThrowItem), stage |-> "threw", valid |-> <<>>]
             ELSE IF Len(r.valid) > 0
             THEN [trace |-> r.trace \o [i \in 1..Len(r.valid) |-> FetchItem(FetchUri(r.valid[i]))],
                   stage |-> "fetching", valid |-> r.valid]
             ELSE [trace |-> Append(r.trace, EmitItem("toolcall", f.calls)),
                   stage |-> "done", valid |-> <<>>]

\* the settle pass with the toolcall event emitted before the response is sent
SettlePassEmitsFirst(f, valid, outs, w) ==
    IF w = 0
    THEN <<EmitItem("toolcall", f.calls), ThrowItem>>
    ELSE <<EmitItem("toolcall", f.calls),
           SendItem(w, ToolResponseMessage(
               [i \in 1..Len(valid) |->
                   [id |-> valid[i].id,
                    response |-> IF \A j \in DOMAIN outs : outs[j].ok
                                 THEN [text |-> outs[i].text] ELSE FetchFailedResponse]]))>>

\* the settle pass running the catch block after the try block has sent
SettlePassAnswersTwice(f, valid, outs, w) ==
    IF w = 0
    THEN <<ThrowItem>>
    ELSE <<SendItem(w, ToolResponseMessage(
               [i \in 1..Len(valid) |-> [id |-> valid[i].id, response |-> [text |-> outs[i].text]]])),
           SendItem(w, ToolResponseMessage(
               [i \in 1..Len(valid) |-> [id |-> valid[i].id, response |-> FetchFailedResponse]])),
           EmitItem("toolcall", f.calls)>>

\* the rest of receive once every fetch of the batch has settled, outs[i] the
\* outcome of the fetch of valid[i], with this.ws = w
SettlePass(f, valid, outs, w) ==
    IF w = 0
    THEN <<ThrowItem>>
    ELSE IF \A i \in DOMAIN outs : outs[i].ok
    THEN <<SendItem(w, ToolResponseMessage(
               [i \in 1..Len(valid) |-> [id |-> valid[i].id, response |-> [text |-> outs[i].text]]])),
           EmitItem("toolcall", f.calls)>>
    ELSE <<SendItem(w, ToolResponseMessage(
               [i \in 1..Len(valid) |-> [id |-> valid[i].id, response |-> FetchFailedResponse]])),
           EmitItem("toolcall", f.calls)>>

(***************************************************************************)
(* Server content: the code-syntax guard and the audio/content split       *)
(***************************************************************************)
\* p.inlineData && p.inlineData.mimeType.startsWith("audio/pcm")
StartsWithAudioPcm(mime) == mime \in {"audio/pcm", "audio/pcm;rate=24000"}
IsAudioPart(p) == "inlineData" \in DOMAIN p /\ StartsWithAudioPcm(p.inlineData.mimeType)

\* base64ToArrayBuffer
Base64ToBytes(b64) ==
    CASE b64 = "QQ==" -> <<65>>
      [] b64 = "Qg==" -> <<66>>
      [] b64 = "Zm9v" -> <<102, 111, 111>>
      [] OTHER -> <<>>

AudioParts(parts) == SelectSeq(parts, IsAudioPart)
IsOtherPart(p) == ~IsAudioPart(p)
\* the split without the strip: the audio parts stay in the content
OtherPartsKeepsAudio(parts) == parts

\* lodash difference(parts, audioParts)
OtherParts(parts) == SelectSeq(parts, IsOtherPart)

\* base64s.forEach: one audio event per truthy payload
RECURSIVE AudioEvents(_)
AudioEvents(audio) ==
    IF audio = <<>> THEN <<>>
    ELSE (IF Head(audio).inlineData.data # ""
          THEN <<EmitItem("audio", Base64ToBytes(Head(audio).inlineData.data))>>
          ELSE <<>>) \o AudioEvents(Tail(audio))

ModelTurnPass(parts, w) ==
    IF HasCodeSyntax(PartsLeaves(parts))
    THEN IF w = 0
         THEN <<ThrowItem>>
         ELSE <<SendItem(w, ClientContentMessage(<<ErrorMessagePart>>, TRUE)),
                EmitItem("content", <<ErrorMessagePart>>)>>
    ELSE AudioEvents(AudioParts(parts))
         \o (IF Len(OtherParts(parts)) = 0 THEN <<>>
             ELSE <<EmitItem("content", OtherParts(parts))>>)

\* the serverContent branch with the turncomplete event after the turn's events
ServerContentPassTurnLast(sc, w) ==
    IF IsInterrupted(sc) THEN <<EmitItem("interrupted", <<>>)>>
    ELSE (IF IsModelTurn(sc) THEN ModelTurnPass(sc.parts, w) ELSE <<>>)
         \o (IF IsTurnComplete(sc) THEN <<EmitItem("turncomplete", <<>>)>> ELSE <<>>)

\* the serverContent branch without the return after the interrupted event
ServerContentPassInterruptedContinues(sc, w) ==
    (IF IsInterrupted(sc) THEN <<EmitItem("interrupted", <<>>)>> ELSE <<>>)
    \o (IF IsTurnComplete(sc) THEN <<EmitItem("turncomplete", <<>>)>> ELSE <<>>)
    \o (IF IsModelTurn(sc) THEN ModelTurnPass(sc.parts, w) ELSE <<>>)

\* the serverContent branch of receive
ServerContentPass(sc, w) ==
    IF IsInterrupted(sc) THEN <<EmitItem("interrupted", <<>>)>>
    ELSE (IF IsTurnComplete(sc) THEN <<EmitItem("turncomplete", <<>>)>> ELSE <<>>)
         \o (IF IsModelTurn(sc) THEN ModelTurnPass(sc.parts, w) ELSE <<>>)

\* a cancellation frame that is swallowed
CancellationPassSilent(f) == <<>>

\* the toolCallCancellation branch of receive
CancellationPass(f) == <<EmitItem("toolcallcancellation", f.ids)>>

\* receive with the setupComplete test ahead of the toolCallCancellation test
ReceivePassSetupFirst(f, w) ==
    IF IsToolCallMessage(f) THEN ToolCallPass(f, w)
    ELSE LET tr == IF IsSetupCompleteMessage(f) THEN <<EmitItem("setupcomplete", <<>>)>>
                   ELSE IF IsToolCallCancellationMessage(f) THEN CancellationPass(f)
                   ELSE IF IsServerContentMessage(f) THEN ServerContentPass(f.sc, w)
                   ELSE <<>>
         IN  [trace |-> tr,
              stage |-> IF tr # <<>> /\ tr[Len(tr)].k = "throw" THEN "threw" ELSE "done",
              valid |-> <<>>]

\* receive treating a frame of no known shape as a failure
ReceivePassUnmatchedThrows(f, w) ==
    IF IsToolCallMessage(f) THEN ToolCallPass(f, w)
    ELSE LET tr == IF IsToolCallCancellationMessage(f) THEN CancellationPass(f)
                   ELSE IF IsSetupCompleteMessage(f) THEN <<EmitItem("setupcomplete", <<>>)>>
                   ELSE IF IsServerContentMessage(f) THEN ServerContentPass(f.sc, w)
                   ELSE <<ThrowItem>>
         IN  [trace |-> tr,
              stage |-> IF tr # <<>> /\ tr[Len(tr)].k = "throw" THEN "threw" ELSE "done",
              valid |-> <<>>]

\* receive(blob) after blobToJSON, with this.ws = w
ReceivePass(f, w) ==
    IF IsToolCallMessage(f) THEN ToolCallPass(f, w)
    ELSE LET tr == IF IsToolCallCancellationMessage(f)
                   THEN CancellationPass(f)
                   ELSE IF IsSetupCompleteMessage(f) THEN <<EmitItem("setupcomplete", <<>>)>>
                   ELSE IF IsServerContentMessage(f) THEN ServerContentPass(f.sc, w)
                   ELSE <<>>
         IN  [trace |-> tr,
              stage |-> IF tr # <<>> /\ tr[Len(tr)].k = "throw" THEN "threw" ELSE "done",
              valid |-> <<>>]

(***************************************************************************)
(* The frames the remote peer may send                                     *)
(***************************************************************************)
SeqsUpTo(S, n) == UNION {[1..k -> S] : k \in 0..n}

NoContent == [interrupted |-> FALSE, turnComplete |-> FALSE, hasTurn |-> FALSE, parts |-> <<>>]

ToolCallFrame(calls, note) ==
    [keys |-> {"toolCall"}, calls |-> calls, note |-> note, ids |-> <<>>, sc |-> NoContent]
ServerContentFrame(sc) ==
    [keys |-> {"serverContent"}, calls |-> <<>>, note |-> "", ids |-> <<>>, sc |-> sc]
CancellationFrame(ids) ==
    [keys |-> {"toolCallCancellation"}, calls |-> <<>>, note |-> "", ids |-> ids, sc |-> NoContent]
SetupCompleteFrame ==
    [keys |-> {"setupComplete"}, calls |-> <<>>, note |-> "", ids |-> <<>>, sc |-> NoContent]
UnmatchedFrame ==
    [keys |-> {}, calls |-> <<>>, note |-> "x", ids |-> <<>>, sc |-> NoContent]

OneKey(k, v) == JObj([x \in {k} |-> v])
TwoKeys(k1, v1, k2, v2) == JObj([x \in {k1, k2} |-> IF x = k1 THEN v1 ELSE v2])

\* the args a pdf_lookup call is tried with
LookupArgs ==
    {OneKey("pdfUri", JStr("files/abc123")),
     TwoKeys("pdfUri", JStr("files/abc123"), "extra", JStr("x")),
     OneKey("pdfUri", JStr("print(1)")),
     OneKey("pdfUri", JStr("python.pdf")),
     OneKey("pdfUri", JStr("")),
     OneKey("pdfUri", JNum("5")),
     OneKey("extra", JStr("x")),
     JObj(<<>>), JArr, JNull, JStr("files/abc123"), JNum("5")}

CallIds == {"", "1", "2"}

Calls ==
    {[id |-> i, name |-> "pdf_lookup", args |-> a] : i \in CallIds, a \in LookupArgs}
    \cup {[id |-> "3", name |-> "other", args |-> a] :
            a \in {OneKey("pdfUri", JStr("files/abc123")), OneKey("pdfUri", JStr("print(1)"))}}

ToolCallFrames ==
    {ToolCallFrame(cs, "") : cs \in SeqsUpTo(Calls, MaxCalls)}
    \cup {ToolCallFrame(<<>>, "PYTHON")}

TextPart(s) == [text |-> s]
InlinePart(mime, data) == [inlineData |-> [mimeType |-> mime, data |-> data]]

Parts ==
    {TextPart("hi"), TextPart("<code>x</code>"),
     InlinePart("audio/pcm", "QQ=="), InlinePart("audio/pcm;rate=24000", "Qg=="),
     InlinePart("audio/pcm", ""), InlinePart("image/png", "Zm9v"),
     InlinePart("audio/mpeg", "Zm9v")}

ServerContentFrames ==
    {ServerContentFrame([interrupted |-> i, turnComplete |-> c, hasTurn |-> TRUE, parts |-> ps]) :
        i \in BOOLEAN, c \in BOOLEAN, ps \in SeqsUpTo(Parts, MaxParts)}
    \cup {ServerContentFrame([interrupted |-> i, turnComplete |-> c, hasTurn |-> FALSE, parts |-> <<>>]) :
        i \in BOOLEAN, c \in BOOLEAN}

\* the cancellation frames: up to MaxCalls cancelled ids
CancellationFrames == {CancellationFrame(ids) : ids \in SeqsUpTo({"1", "2"}, MaxCalls)}

\* a frame with several of the four keys: one valid call under toolCall, one
\* id under toolCallCancellation, the given content under serverContent
MixedFrame(keys, sc) ==
    [keys |-> keys,
     calls |-> IF "toolCall" \in keys
               THEN <<[id |-> "1", name |-> "pdf_lookup",
                       args |-> OneKey("pdfUri", JStr("files/abc123"))]>>
               ELSE <<>>,
     note |-> "",
     ids |-> IF "toolCallCancellation" \in keys THEN <<"1">> ELSE <<>>,
     sc |-> IF "serverContent" \in keys THEN sc ELSE NoContent]

FrameKeys == {"toolCall", "toolCallCancellation", "setupComplete", "serverContent"}

\* the frames with two or more of the four keys; their content, if any, is a
\* complete turn or an interrupted one
MixedFrames ==
    {MixedFrame(ks, [interrupted |-> i, turnComplete |-> TRUE, hasTurn |-> TRUE,
                     parts |-> <<InlinePart("audio/pcm", "QQ=="), TextPart("hi")>>]) :
        ks \in {k \in SUBSET FrameKeys : Cardinality(k) >= 2}, i \in BOOLEAN}

\* every frame shape, for the specification of one frame's processing
AllFrames ==
    ToolCallFrames \cup ServerContentFrames \cup CancellationFrames \cup MixedFrames
    \cup {SetupCompleteFrame, UnmatchedFrame}

\* a few frames, for the specification of the whole client
FewFrames ==
    {ToolCallFrame(<<[id |-> "1", name |-> "pdf_lookup",
                      args |-> OneKey("pdfUri", JStr("files/abc123"))]>>, ""),
     ToolCallFrame(<<[id |-> "1", name |-> "pdf_lookup",
                      args |-> OneKey("pdfUri", JStr("print(1)"))]>>, ""),
     ServerContentFrame([interrupted |-> FALSE, turnComplete |-> TRUE, hasTurn |-> TRUE,
                         parts |-> <<InlinePart("audio/pcm", "QQ=="), TextPart("hi")>>]),
     CancellationFrame(<<"1">>),
     SetupCompleteFrame}

\* the outcomes of fetchPdfText: the text of the resource, or a throw
FetchOutcomes ==
    {[ok |-> TRUE, text |-> "hello world"], [ok |-> TRUE, text |-> ""], [ok |-> FALSE, text |-> ""]}

(***************************************************************************)
(* The client                                                              *)
(***************************************************************************)
\* the rejection values of the promise connect returns
\* (this.url is fixed by the constructor; <url> stands for it)
CouldNotConnect == "Could not connect to <url>"
InvalidConfig == "Invalid config sent to connect(config)"

\* a socket made by connect(cfg): its state, the listeners bound (errL, closeL),
\* the promise of the call and its rejection value, the config the call was
\* given, whether it has opened, and the frames written to it
NewSocket(viaHook, cfg) ==
    [st |-> "connecting", errL |-> TRUE, closeL |-> FALSE, promise |-> "pending",
     reason |-> "", arg |-> cfg, opened |-> FALSE,
     hook |-> viaHook, out |-> <<>>]

\* a receive() invocation: the socket and the frame it was started for, where
\* it stands, the calls it fetches, what it has done, the outcomes of its
\* fetches, and the invocations whose fetches were pending when it ran
NewTask(h, f) ==
    [h |-> h, frame |-> f, stage |-> "parsing", valid |-> <<>>, trace |-> <<>>, outs |-> <<>>,
     during |-> {}]

\* the receive() invocations suspended at the await of their fetches
Fetching == {k \in DOMAIN tasks : tasks[k].stage = "fetching"}

\* the handler that ran in the last step: its argument, what it returned
\* (for receive and the send calls: that it did not throw), and the log and
\* lifecycle events it emitted (the log events of receive are not recorded)
RanWith(op, arg, ret, logs, evs) ==
    [op |-> op, arg |-> arg, ret |-> ret, logs |-> logs, evs |-> evs, err |-> ""]
Ran(op, arg, ret) == RanWith(op, arg, ret, <<>>, <<>>)
\* a handler that ended by throwing an error with the message err
Threw(op, arg, err) == [Ran(op, arg, FALSE) EXCEPT !.err = err]

Log(type, message) == [type |-> type, message |-> message]

\* the frames a trace writes, by kind, in order
MessageKind(msg) == CHOOSE k \in DOMAIN msg : TRUE
SentKinds(trace) ==
    LET sends == SelectSeq(trace, LAMBDA it : it.k = "send")
    IN  [i \in 1..Len(sends) |-> MessageKind(sends[i].msg)]

\* disconnect without the identity check: any handle closes the owned socket
DisconnectClosesAnyHandle(h, w) == w # 0

\* disconnect(ws?): does it close; h = 0 stands for no argument
DisconnectCloses(h, w) == (h = 0 \/ w = h) /\ w # 0

\* the sockets after disconnect(h): this.ws.close()
SockAfterDisconnect(h, w, ss) ==
    IF DisconnectCloses(h, w)
    THEN [ss EXCEPT ![w].st = IF @ = "open" THEN "closing" ELSE @]
    ELSE ss

\* disconnect that closes the socket and keeps the handle
WsKeptAfterDisconnect(h, w) == w

\* this.ws after disconnect(h)
WsAfterDisconnect(h, w) == IF DisconnectCloses(h, w) THEN 0 ELSE w

\* onError without the reject: the promise stays as it is
PromiseIgnoresError(p) == p

\* onError: reject(new Error(message)) settles a promise that is still pending
PromiseAfterError(p) == IF p = "pending" THEN "rejected" ELSE p

\* the log events of disconnect(h)
DisconnectLogs(h, w) ==
    IF DisconnectCloses(h, w) THEN <<Log("client.close", "Disconnected")>> ELSE <<>>

\* _sendDirect without its guard
SendDirectNeverThrows(w) == FALSE

\* _sendDirect: throws when the client owns no socket
SendDirectThrows(w) == w = 0

(***************************************************************************)
(* The configs of useLiveAPI: whether a config is set, what its tools      *)
(* field is, whether a tool declares pdf_lookup, and whether the first     *)
(* part of the system instruction has a text.                              *)
(***************************************************************************)
HookConfig(tools, pdfLookup, text) ==
    [present |-> TRUE, tools |-> tools, pdfLookup |-> pdfLookup, text |-> text]

\* the config useLiveAPI starts with
InitialConfig == HookConfig("array", TRUE, TRUE)

\* the config ControlTray builds once a PDF is selected: model,
\* systemInstruction and generationConfig, no tools
PdfConfig == HookConfig("absent", FALSE, TRUE)

\* the configs a caller of setConfig is tried with
HookConfigs ==
    {InitialConfig, PdfConfig,
     HookConfig("object", FALSE, TRUE),
     HookConfig("array", FALSE, TRUE),
     HookConfig("array", TRUE, FALSE)}

\* a connect that validates nothing
HookConfigAccepted(c) == ""

\* useLiveAPI.connect: the error its validation throws, "" when it passes
HookConfigError(c) ==
    IF ~c.present THEN "config has not been set"
    ELSE IF c.tools # "array" THEN "Tools configuration is required"
    ELSE IF ~c.pdfLookup THEN "PDF lookup tool not properly configured"
    ELSE IF ~c.text THEN "System instruction must be configured"
    ELSE ""

HookInit ==
    [connected |-> FALSE, config |-> InitialConfig, pdfData |-> "null", effect |-> FALSE]

Init ==
    /\ ws = 0
    /\ config = "null"
    /\ sock = <<>>
    /\ tasks = <<>>
    /\ peer = [frames |-> FewFrames, left |-> MaxLoad]
    /\ hook = HookInit
    /\ last = Ran("new", 0, FALSE)

\* client.connect(config)
Connect(cfg) ==
    /\ Len(sock) + Len(tasks) < MaxLoad
    /\ config' = cfg
    /\ sock' = Append(sock, NewSocket(FALSE, cfg))
    /\ last' = Ran("connect", Len(sock) + 1, FALSE)
    /\ UNCHANGED <<ws, tasks, peer, hook>>

\* client.disconnect(ws?)
Disconnect(h) ==
    /\ ws' = WsAfterDisconnect(h, ws)
    /\ sock' = SockAfterDisconnect(h, ws, sock)
    /\ last' = RanWith("disconnect", h, DisconnectCloses(h, ws), DisconnectLogs(h, ws), <<>>)
    /\ UNCHANGED <<config, tasks, peer, hook>>

\* useLiveAPI.connect: the validation of the config, then client.disconnect()
\* and client.connect(config); a config that fails the validation makes it
\* throw before the client is touched
HookConnect ==
    IF HookConfigError(hook.config) # ""
    THEN /\ last' = Threw("hook.connect", 0, HookConfigError(hook.config))
         /\ UNCHANGED <<ws, config, sock, tasks, peer, hook>>
    ELSE /\ Len(sock) + Len(tasks) < MaxLoad
         /\ ws' = WsAfterDisconnect(0, ws)
         /\ config' = "cfg"
         /\ sock' = Append(SockAfterDisconnect(0, ws, sock), NewSocket(TRUE, "cfg"))
         /\ hook' = hook
         /\ last' = RanWith("hook.connect", Len(sock) + 1, DisconnectCloses(0, ws),
                            DisconnectLogs(0, ws), <<>>)
         /\ UNCHANGED <<tasks, peer>>

\* useLiveAPI.disconnect: client.disconnect(), setConnected(false)
HookDisconnect ==
    /\ ws' = WsAfterDisconnect(0, ws)
    /\ sock' = SockAfterDisconnect(0, ws, sock)
    /\ hook' = [hook EXCEPT !.connected = FALSE]
    /\ last' = RanWith("hook.disconnect", 0, DisconnectCloses(0, ws),
                       DisconnectLogs(0, ws), <<>>)
    /\ UNCHANGED <<config, tasks, peer>>

\* setConfig of useLiveAPI, called by a component
SetConfig(c) ==
    /\ hook' = [hook EXCEPT !.config = c]
    /\ last' = Ran("setConfig", 0, TRUE)
    /\ UNCHANGED <<ws, config, sock, tasks, peer>>

\* the base64 contents a selected file is tried with; the reader rejects an
\* empty content, so none is the empty text
PdfContents == {"QUJD", "REVG"}

\* ControlTray: a file read by PDFUploadButton ends and onPDFSelect sets
\* pdfData to its content.  A content other than the one held is rendered and
\* leaves the effect on pdfData to run; with the content already held
\* setPdfData bails out: no render, no effect.  The file input is enabled
\* whatever the state is and is reset on every change, so a file can be
\* selected while connected, after an earlier file, and again.
SelectPdf(data) ==
    /\ hook' = IF data = hook.pdfData THEN hook
               ELSE [hook EXCEPT !.pdfData = data, !.effect = TRUE]
    /\ last' = Ran("selectPdf", 0, data # hook.pdfData)
    /\ UNCHANGED <<ws, config, sock, tasks, peer>>

\* ControlTray: the effect on pdfData runs: getEnvConfig succeeds and the
\* config without tools is installed, or it throws and the config stays
PdfEffect(envOk) ==
    /\ hook.effect
    /\ hook' = [hook EXCEPT !.effect = FALSE,
                            !.config = IF envOk THEN PdfConfig ELSE @]
    /\ last' = Ran("pdfEffect", 0, envOk)
    /\ UNCHANGED <<ws, config, sock, tasks, peer>>

\* ControlTray: the connect button, enabled once a PDF is selected:
\* onClick = connected ? disconnect : connect
TrayClick ==
    /\ hook.pdfData # "null"
    /\ IF hook.connected THEN HookDisconnect ELSE HookConnect

\* the "open" listener of connect
SockOpen(h) ==
    /\ sock[h].st = "connecting"
    /\ IF config = "null"
       THEN /\ sock' = [sock EXCEPT ![h].st = "open", ![h].opened = TRUE,
                                    ![h].promise = "rejected", ![h].reason = InvalidConfig]
            /\ last' = Ran("open", h, FALSE)
            /\ UNCHANGED <<ws, hook>>
       ELSE /\ ws' = h
            /\ sock' = [sock EXCEPT ![h].st = "open", ![h].opened = TRUE,
                                    ![h].promise = "resolved",
                                    ![h].errL = FALSE, ![h].closeL = TRUE,
                                    ![h].out = Append(@, "setup")]
            /\ hook' = IF sock[h].hook THEN [hook EXCEPT !.connected = TRUE] ELSE hook
            /\ last' = RanWith("open", h, TRUE,
                               <<Log("client.open", "connected to socket"),
                                 Log("client.send", "setup")>>,
                               <<"open">>)
    /\ UNCHANGED <<config, tasks, peer>>

\* the "error" listener of connect (onError), bound until the socket has opened
\* with a config; the transport is gone after an error
SockError(h) ==
    /\ sock[h].st \in {"connecting", "open"}
    /\ sock[h].errL
    /\ ws' = WsAfterDisconnect(h, ws)
    /\ sock' = [SockAfterDisconnect(h, ws, sock) EXCEPT
                    ![h].st = "closed",
                    ![h].promise = PromiseAfterError(@),
                    ![h].reason = IF sock[h].promise = "pending" THEN CouldNotConnect ELSE @]
    /\ last' = RanWith("error", h, DisconnectCloses(h, ws),
                       DisconnectLogs(h, ws) \o <<Log("server.error", CouldNotConnect)>>, <<>>)
    /\ UNCHANGED <<config, tasks, peer, hook>>

(***************************************************************************)
(* The reason of a close event is a text of words separated by one space,  *)
(* given as the sequence of its words.                                     *)
(***************************************************************************)
RECURSIVE Join(_)
Join(words) ==
    IF words = <<>> THEN ""
    ELSE IF Len(words) = 1 THEN words[1]
    ELSE words[1] \o " " \o Join(Tail(words))

\* the reasons a close event is tried with: none, a plain one, one with the
\* prelude inside, one with error and no prelude, one that starts with the
\* prelude
CloseReasons ==
    {<<>>, <<"going", "away">>, <<"x", "ERROR]", "quota", "exceeded">>,
     <<"internal", "error">>, <<"ERROR]", "quota">>}

\* word.toLowerCase().includes("error")
LowerIncludesError(word) == word \in {"error", "ERROR]"}

\* reason.indexOf("ERROR]"), -1 when absent: the characters before the first
\* word that is the prelude
RECURSIVE PreludeIndex(_, _)
PreludeIndex(words, before) ==
    IF words = <<>> THEN -1
    ELSE IF Head(words) = "ERROR]" THEN before
    ELSE PreludeIndex(Tail(words), before + Len(Head(words)) + 1)

\* reason.slice(preludeIndex + prelude.length + 1): the words after the prelude
RECURSIVE AfterPrelude(_)
AfterPrelude(words) ==
    IF words = <<>> THEN <<>>
    ELSE IF Head(words) = "ERROR]" THEN Tail(words)
    ELSE AfterPrelude(Tail(words))

\* the close listener's reason: ev.reason, cut after the prelude when the
\* reason holds error and the prelude is not at its start
ShownReason(words) ==
    IF (\E k \in DOMAIN words : LowerIncludesError(words[k])) /\ PreludeIndex(words, 0) > 0
    THEN Join(AfterPrelude(words))
    ELSE Join(words)

\* the message of the server.close log event
CloseMessage(words) ==
    IF ShownReason(words) = "" THEN "disconnected "
    ELSE "disconnected with reason: " \o ShownReason(words)

\* a "close" listener that emits close without running disconnect(ws)
SockCloseKeepsHandle(h, reason) ==
    /\ sock[h].st \in {"open", "closing"}
    /\ IF sock[h].closeL
       THEN /\ sock' = [sock EXCEPT ![h].st = "closed"]
            /\ hook' = [hook EXCEPT !.connected = FALSE]
            /\ last' = RanWith("close", h, FALSE,
                               <<Log("server.close", CloseMessage(reason))>>, <<"close">>)
            /\ UNCHANGED ws
       ELSE /\ sock' = [sock EXCEPT ![h].st = "closed"]
            /\ last' = Ran("close", h, FALSE)
            /\ UNCHANGED <<ws, hook>>
    /\ UNCHANGED <<config, tasks, peer>>

\* the transport of a socket closes: the "close" listener bound by the "open"
\* listener runs disconnect(ws), logs the reason of the close event and emits
\* close (useLiveAPI: setConnected(false))
SockClose(h, reason) ==
    /\ sock[h].st \in {"open", "closing"}
    /\ IF sock[h].closeL
       THEN /\ ws' = WsAfterDisconnect(h, ws)
            /\ sock' = [SockAfterDisconnect(h, ws, sock) EXCEPT ![h].st = "closed"]
            /\ hook' = [hook EXCEPT !.connected = FALSE]
            /\ last' = RanWith("close", h, DisconnectCloses(h, ws),
                               DisconnectLogs(h, ws)
                                   \o <<Log("server.close", CloseMessage(reason))>>,
                               <<"close">>)
       ELSE /\ sock' = [sock EXCEPT ![h].st = "closed"]
            /\ last' = Ran("close", h, FALSE)
            /\ UNCHANGED <<ws, hook>>
    /\ UNCHANGED <<config, tasks, peer>>

\* the "message" listener of connect: a Blob starts receive(), which awaits blobToJSON
Deliver(h, f) ==
    /\ sock[h].st = "open"
    /\ peer.left > 0
    /\ Len(sock) + Len(tasks) < MaxLoad
    /\ tasks' = Append(tasks, NewTask(h, f))
    /\ peer' = [peer EXCEPT !.left = @ - 1]
    /\ last' = Ran("message", h, TRUE)
    /\ UNCHANGED <<ws, config, sock, hook>>

\* the frames of a trace, written to the socket owned while it ran
Written(ss, w, trace) ==
    IF w = 0 THEN ss ELSE [ss EXCEPT ![w].out = @ \o SentKinds(trace)]

\* receive() continuing only when no earlier frame's fetches are pending
ParseDoneSerialized(i) ==
    /\ tasks[i].stage = "parsing"
    /\ \A k \in 1..(i - 1) : tasks[k].stage # "fetching"
    /\ LET r == ReceivePass(tasks[i].frame, ws)
       IN  /\ tasks' = [tasks EXCEPT ![i].stage = r.stage, ![i].valid = r.valid,
                                     ![i].trace = r.trace, ![i].during = Fetching]
           /\ sock' = Written(sock, ws, r.trace)
    /\ last' = Ran("receive", i, tasks'[i].stage # "threw")
    /\ UNCHANGED <<ws, config, peer, hook>>

\* receive(): blobToJSON has resolved; the pass up to the next await or the end
ParseDone(i) ==
    /\ tasks[i].stage = "parsing"
    /\ LET r == ReceivePass(tasks[i].frame, ws)
       IN  /\ tasks' = [tasks EXCEPT ![i].stage = r.stage, ![i].valid = r.valid,
                                     ![i].trace = r.trace, ![i].during = Fetching]
           /\ sock' = Written(sock, ws, r.trace)
    /\ last' = Ran("receive", i, tasks'[i].stage # "threw")
    /\ UNCHANGED <<ws, config, peer, hook>>

\* the fetches of a batch given up, without an answer, when a cancellation
\* naming one of its ids has been processed
FetchSettleUnlessCancelled(i, outs) ==
    /\ tasks[i].stage = "fetching"
    /\ LET cancelled == UNION {Range(tasks[k].frame.ids) :
                                 k \in {j \in DOMAIN tasks :
                                          /\ ~IsToolCallMessage(tasks[j].frame)
                                          /\ IsToolCallCancellationMessage(tasks[j].frame)
                                          /\ tasks[j].stage = "done"}}
           tr == IF \E fc \in Range(tasks[i].valid) : fc.id \in cancelled
                 THEN <<EmitItem("toolcall", tasks[i].frame.calls)>>
                 ELSE SettlePass(tasks[i].frame, tasks[i].valid, outs, ws)
       IN  /\ tasks' = [tasks EXCEPT ![i].stage = IF tr[Len(tr)].k = "throw" THEN "threw" ELSE "done",
                                     ![i].outs = outs,
                                     ![i].trace = @ \o tr]
           /\ sock' = Written(sock, ws, tr)
    /\ last' = Ran("settle", i, tasks'[i].stage # "threw")
    /\ UNCHANGED <<ws, config, peer, hook>>

\* receive(): Promise.all of the fetches has settled
FetchSettle(i, outs) ==
    /\ tasks[i].stage = "fetching"
    /\ LET tr == SettlePass(tasks[i].frame, tasks[i].valid, outs, ws)
       IN  /\ tasks' = [tasks EXCEPT ![i].stage = IF tr[Len(tr)].k = "throw" THEN "threw" ELSE "done",
                                     ![i].outs = outs,
                                     ![i].trace = @ \o tr]
           /\ sock' = Written(sock, ws, tr)
    /\ last' = Ran("settle", i, tasks'[i].stage # "threw")
    /\ UNCHANGED <<ws, config, peer, hook>>

\* a frame written by _sendDirect to the owned socket
SockAfterSend(w, kind, ss) ==
    IF SendDirectThrows(w) THEN ss ELSE [ss EXCEPT ![w].out = Append(@, kind)]

\* the frames written to the sockets after their Setup frames
RECURSIVE UserFrames(_)
UserFrames(ss) ==
    IF ss = <<>> THEN 0
    ELSE Len(SelectSeq(Head(ss).out, LAMBDA k : k # "setup")) + UserFrames(Tail(ss))

\* the chunks sendRealtimeInput is tried with, each given by its mimeType
ChunkLists ==
    {<<>>, <<"audio/pcm;rate=16000">>, <<"image/jpeg">>,
     <<"audio/pcm;rate=16000", "image/jpeg">>, <<"text/plain">>}

\* ch.mimeType.includes("audio"), ch.mimeType.includes("image")
MimeIncludes(mime, what) ==
    CASE what = "audio" -> mime \in {"audio/pcm;rate=16000", "audio/pcm"}
      [] what = "image" -> mime \in {"image/jpeg"}
      [] OTHER -> FALSE

\* sendRealtimeInput: the label it logs, from the kinds of its chunks
RealtimeLabel(chunks) ==
    LET hasAudio == \E i \in DOMAIN chunks : MimeIncludes(chunks[i], "audio")
        hasVideo == \E i \in DOMAIN chunks : MimeIncludes(chunks[i], "image")
    IN  IF hasAudio /\ hasVideo THEN "audio + video"
        ELSE IF hasAudio THEN "audio"
        ELSE IF hasVideo THEN "video"
        ELSE "unknown"

\* a call from outside of one of the send methods: the message is built,
\* _sendDirect writes it or throws, and the log event follows the write
UserSend(op, kind, logType, message) ==
    /\ Len(sock) + Len(tasks) + UserFrames(sock) < MaxLoad
    /\ sock' = SockAfterSend(ws, kind, sock)
    /\ last' = IF SendDirectThrows(ws)
               THEN Ran(op, ws, FALSE)
               ELSE RanWith(op, ws, TRUE, <<Log(logType, message)>>, <<>>)
    /\ UNCHANGED <<ws, config, tasks, peer, hook>>

\* client.send(parts)
Send == UserSend("send", "clientContent", "client.send", "clientContent")

\* the "open" listener of connect when a listener of the client's open event
\* calls send: emit("open") runs it before this.ws = ws, so its frame goes to
\* the socket owned until then, and when none is owned _sendDirect throws out
\* of emit and the rest of the open listener does not run
SockOpenSending(h) ==
    /\ sock[h].st = "connecting"
    /\ config # "null"
    /\ Len(sock) + Len(tasks) + UserFrames(sock) < MaxLoad
    /\ IF SendDirectThrows(ws)
       THEN /\ sock' = [sock EXCEPT ![h].st = "open", ![h].opened = TRUE]
            /\ last' = RanWith("open", h, FALSE,
                               <<Log("client.open", "connected to socket")>>, <<"open">>)
            /\ UNCHANGED <<ws, hook>>
       ELSE /\ ws' = h
            /\ sock' = [SockAfterSend(ws, "clientContent", sock) EXCEPT
                            ![h].st = "open", ![h].opened = TRUE,
                            ![h].promise = "resolved",
                            ![h].errL = FALSE, ![h].closeL = TRUE,
                            ![h].out = Append(@, "setup")]
            /\ hook' = IF sock[h].hook THEN [hook EXCEPT !.connected = TRUE] ELSE hook
            /\ last' = RanWith("open", h, TRUE,
                               <<Log("client.open", "connected to socket"),
                                 Log("client.send", "clientContent"),
                                 Log("client.send", "setup")>>,
                               <<"open">>)
    /\ UNCHANGED <<config, tasks, peer>>

\* client.sendRealtimeInput(chunks)
SendRealtimeInput ==
    \E chunks \in ChunkLists :
        UserSend("sendRealtimeInput", "realtimeInput", "client.realtimeInput",
                 RealtimeLabel(chunks))

\* client.sendToolResponse(toolResponse)
SendToolResponse ==
    UserSend("sendToolResponse", "toolResponse", "client.toolResponse", "toolResponse")

\* the whole client with a caller that always passes a config to connect
Next ==
    \/ Connect("cfg")
    \/ \E h \in 0..Len(sock) : Disconnect(h)
    \/ \E h \in DOMAIN sock : SockOpen(h)
    \/ \E h \in DOMAIN sock : SockError(h)
    \/ \E h \in DOMAIN sock, reason \in CloseReasons : SockClose(h, reason)
    \/ \E h \in DOMAIN sock, f \in peer.frames : Deliver(h, f)
    \/ \E i \in DOMAIN tasks : ParseDone(i)
    \/ \E i \in DOMAIN tasks :
          \E outs \in [1..Len(tasks[i].valid) -> FetchOutcomes] : FetchSettle(i, outs)

Spec == Init /\ [][Next]_vars

(***************************************************************************)
(* One frame on an open connection: the client has connected (connect,     *)
(* open), the peer sends one frame of any shape, and the user may          *)
(* disconnect while receive() is suspended.                                *)
(***************************************************************************)
InitFrame ==
    /\ ws = 1
    /\ config = "cfg"
    /\ sock = <<[NewSocket(FALSE, "cfg") EXCEPT !.st = "open", !.opened = TRUE,
                                                !.promise = "resolved",
                                                !.errL = FALSE, !.closeL = TRUE,
                                                !.out = <<"setup">>]>>
    /\ tasks = <<>>
    /\ \E f \in AllFrames : peer = [frames |-> {f}, left |-> 1]
    /\ hook = HookInit
    /\ last = RanWith("open", 1, TRUE,
                      <<Log("client.open", "connected to socket"), Log("client.send", "setup")>>,
                      <<"open">>)

NextFrame ==
    \/ \E f \in peer.frames : Deliver(1, f)
    \/ \E i \in DOMAIN tasks : ParseDone(i)
    \/ \E i \in DOMAIN tasks :
          \E outs \in [1..Len(tasks[i].valid) -> FetchOutcomes] : FetchSettle(i, outs)
    \/ Disconnect(0)

SpecFrame == InitFrame /\ [][NextFrame]_vars

(***************************************************************************)
(* The client as useLiveAPI drives it: connect and disconnect go through   *)
(* the hook.                                                               *)
(***************************************************************************)
NextHook ==
    \/ HookConnect
    \/ HookDisconnect
    \/ \E h \in DOMAIN sock : SockOpen(h)
    \/ \E h \in DOMAIN sock : SockError(h)
    \/ \E h \in DOMAIN sock, reason \in CloseReasons : SockClose(h, reason)
    \/ \E h \in DOMAIN sock, f \in peer.frames : Deliver(h, f)
    \/ \E i \in DOMAIN tasks : ParseDone(i)
    \/ \E i \in DOMAIN tasks :
          \E outs \in [1..Len(tasks[i].valid) -> FetchOutcomes] : FetchSettle(i, outs)

SpecHook == Init /\ [][NextHook]_vars

(***************************************************************************)
(* The control tray: the components set the hook's config, a PDF is        *)
(* selected, the connect button is clicked, and the sockets have their     *)
(* events.                                                                 *)
(***************************************************************************)
NextTray ==
    \/ \E c \in HookConfigs : SetConfig(c)
    \/ \E data \in PdfContents : SelectPdf(data)
    \/ \E envOk \in BOOLEAN : PdfEffect(envOk)
    \/ TrayClick
    \/ HookConnect
    \/ HookDisconnect
    \/ \E h \in DOMAIN sock : SockOpen(h)
    \/ \E h \in DOMAIN sock : SockError(h)
    \/ \E h \in DOMAIN sock, reason \in CloseReasons : SockClose(h, reason)

SpecTray == Init /\ [][NextTray]_vars

(***************************************************************************)
(* The life cycle of the connections alone: connect with a config or with  *)
(* none, disconnect with any handle or none, and the socket's events.      *)
(***************************************************************************)
NextConnect ==
    \/ \E cfg \in {"cfg", "null"} : Connect(cfg)
    \/ \E h \in 0..Len(sock) : Disconnect(h)
    \/ \E h \in DOMAIN sock : SockOpen(h)
    \/ \E h \in DOMAIN sock : SockError(h)
    \/ \E h \in DOMAIN sock, reason \in CloseReasons : SockClose(h, reason)

SpecConnect == Init /\ [][NextConnect]_vars

(***************************************************************************)
(* The client and its caller without inbound frames: connect, disconnect,  *)
(* the socket's events and the three send methods.                         *)
(***************************************************************************)
NextSend ==
    \/ Connect("cfg")
    \/ Disconnect(0)
    \/ \E h \in DOMAIN sock : SockOpen(h)
    \/ \E h \in DOMAIN sock : SockError(h)
    \/ \E h \in DOMAIN sock, reason \in CloseReasons : SockClose(h, reason)
    \/ \E h \in DOMAIN sock : SockOpenSending(h)
    \/ Send
    \/ SendRealtimeInput
    \/ SendToolResponse

SpecSend == Init /\ [][NextSend]_vars

(***************************************************************************)
(* Properties                                                              *)
(***************************************************************************)
ToolTasks == {i \in DOMAIN tasks : IsToolCallMessage(tasks[i].frame)}
Finished(i) == tasks[i].stage = "done"

\* the entries of every ToolResponse a receive() invocation has sent
ResponseEntries(t) ==
    UNION {Range(it.msg.toolResponse.functionResponses) :
             it \in {x \in Range(t.trace) : x.k = "send" /\ "toolResponse" \in DOMAIN x.msg}}

FrameIds(f) == {f.calls[j].id : j \in DOMAIN f.calls}

\* the data model's assumption on a batch: ids present and pairwise distinct
DistinctIds(f) ==
    /\ "" \notin FrameIds(f)
    /\ \A j, k \in DOMAIN f.calls : f.calls[j].id = f.calls[k].id => j = k

IsCorrective(e) == {"error", "example"} \subseteq DOMAIN e.response
HasText(e) == "text" \in DOMAIN e.response
Executed(t, fc) == fc \in Range(t.valid)
Fetches(t) == {x \in Range(t.trace) : x.k = "fetch"}

\* C1: every id of every ToolResponse sent while answering a ToolCall frame is
\* one of the call ids of that frame
C1_ResponseIdsAreFrameIds ==
    \A i \in ToolTasks :
        \A e \in ResponseEntries(tasks[i]) : e.id \in FrameIds(tasks[i].frame)

\* C2: every ToolCall frame whose processing has ended has published its raw
\* call list through the toolcall event, exactly once
C2_ToolCallEventOnce ==
    \A i \in ToolTasks :
        Finished(i) =>
            Cardinality({j \in DOMAIN tasks[i].trace :
                            tasks[i].trace[j] = EmitItem("toolcall", tasks[i].frame.calls)}) = 1

\* C3: a ToolCall frame whose serialization holds a code-syntax marker is
\* rejected as a whole: every call id gets the same corrective entry and no
\* call is fetched
C3_WholeFrameRejectsEveryId ==
    \A i \in ToolTasks :
        LET t == tasks[i] IN
        (Finished(i) /\ DistinctIds(t.frame) /\ HasCodeSyntax(FrameLeaves(t.frame))) =>
            /\ Fetches(t) = {}
            /\ \A id \in FrameIds(t.frame) :
                  [id |-> id, response |-> CodeSyntaxResponse] \in ResponseEntries(t)

\* C4: a pdf_lookup call with pdfUri plus an extra key is not fetched, gets a
\* corrective entry (error and example) for its id, and no text entry
C4_TwoKeysRejected ==
    \A i \in ToolTasks :
        LET t == tasks[i] IN
        (Finished(i) /\ DistinctIds(t.frame)) =>
            \A fc \in Range(t.frame.calls) :
                (/\ fc.name = "pdf_lookup"
                 /\ IsPlainObject(fc.args)
                 /\ "pdfUri" \in DOMAIN fc.args.m
                 /\ Cardinality(DOMAIN fc.args.m) = 2) =>
                    /\ ~Executed(t, fc)
                    /\ \E e \in ResponseEntries(t) : e.id = fc.id /\ IsCorrective(e)
                    /\ \A e \in ResponseEntries(t) : e.id = fc.id => ~HasText(e)

\* C5: a pdf_lookup call whose args is no plain mapping (array, null, string,
\* number) gets a corrective entry for its id and is not executed
C5_NonMappingArgsRejected ==
    \A i \in ToolTasks :
        LET t == tasks[i] IN
        (Finished(i) /\ DistinctIds(t.frame)) =>
            \A fc \in Range(t.frame.calls) :
                (fc.name = "pdf_lookup" /\ fc.args.ty \in {"array", "null", "string", "number"}) =>
                    /\ ~Executed(t, fc)
                    /\ \E e \in ResponseEntries(t) : e.id = fc.id /\ IsCorrective(e)

\* C6: a pdf_lookup call whose serialized args hold print( gets a corrective
\* entry for its own id and is not executed, at any position of the frame
C6_PrintArgsRejectedAtAnyPosition ==
    \A i \in ToolTasks :
        LET t == tasks[i] IN
        (Finished(i) /\ DistinctIds(t.frame)) =>
            \A j \in DOMAIN t.frame.calls :
                LET fc == t.frame.calls[j] IN
                (fc.name = "pdf_lookup" /\ Includes(JsonLeaves(fc.args), "print(")) =>
                    /\ ~Executed(t, fc)
                    /\ \E e \in ResponseEntries(t) : e.id = fc.id /\ IsCorrective(e)

\* a ToolCall frame whose calls all passed validation and whose fetches all succeeded
AllValidAllFetched(t) ==
    /\ IsToolCallMessage(t.frame)
    /\ Len(t.frame.calls) > 0
    /\ t.valid = t.frame.calls
    /\ Len(t.outs) = Len(t.valid)
    /\ \A j \in DOMAIN t.outs : t.outs[j].ok

IsToolCallEvent(t, it) == it = EmitItem("toolcall", t.frame.calls)
IsTextResponse(t, it) ==
    /\ it.k = "send"
    /\ "toolResponse" \in DOMAIN it.msg
    /\ it.msg.toolResponse.functionResponses =
          [j \in 1..Len(t.valid) |-> [id |-> t.valid[j].id, response |-> [text |-> t.outs[j].text]]]

\* C7 as claimed: for a frame whose calls are all valid and whose fetches all
\* succeed, the toolcall event comes first and the text ToolResponse after it
C7_EventThenResponse ==
    \A i \in DOMAIN tasks :
        LET t == tasks[i] IN
        (Finished(i) /\ AllValidAllFetched(t)) =>
            \E a, b \in DOMAIN t.trace :
                a < b /\ IsToolCallEvent(t, t.trace[a]) /\ IsTextResponse(t, t.trace[b])

\* C7 as amended: for such a frame the text ToolResponse is sent first and the
\* toolcall event is emitted after it; the event never precedes the response
C7_ResponseThenEvent ==
    \A i \in DOMAIN tasks :
        LET t == tasks[i] IN
        AllValidAllFetched(t) =>
            /\ \A b \in DOMAIN t.trace :
                  IsToolCallEvent(t, t.trace[b]) =>
                      \E a \in 1..(b - 1) : IsTextResponse(t, t.trace[a])
            /\ Finished(i) =>
                  \E a, b \in DOMAIN t.trace :
                      a < b /\ IsTextResponse(t, t.trace[a]) /\ IsToolCallEvent(t, t.trace[b])

C7_Witness ==
    \E i \in DOMAIN tasks :
        LET t == tasks[i] IN
        /\ Finished(i) /\ AllValidAllFetched(t)
        /\ Len(t.trace) >= 2
        /\ IsTextResponse(t, t.trace[Len(t.trace) - 1])
        /\ IsToolCallEvent(t, t.trace[Len(t.trace)])

\* the model turns the demultiplexer splits: a serverContent frame with a model
\* turn, not interrupted, whose parts trip no code-syntax guard
DemuxTasks ==
    {i \in DOMAIN tasks :
        /\ ~IsToolCallMessage(tasks[i].frame)
        /\ ~IsToolCallCancellationMessage(tasks[i].frame)
        /\ ~IsSetupCompleteMessage(tasks[i].frame)
        /\ IsServerContentMessage(tasks[i].frame)
        /\ tasks[i].frame.sc.hasTurn
        /\ ~tasks[i].frame.sc.interrupted
        /\ ~HasCodeSyntax(PartsLeaves(tasks[i].frame.sc.parts))
        /\ Finished(i)}

PcmPart(p) ==
    "inlineData" \in DOMAIN p /\ p.inlineData.mimeType \in {"audio/pcm", "audio/pcm;rate=24000"}
NonPcmPart(p) == ~PcmPart(p)
PcmPartWithPayload(p) == PcmPart(p) /\ p.inlineData.data # ""
IsAudioEvent(it) == it.k = "emit" /\ it.ev = "audio"
IsContentEvent(it) == it.k = "emit" /\ it.ev = "content"
IsTurnEvent(it) == IsAudioEvent(it) \/ IsContentEvent(it)

\* the audio and content events of a trace, in order
TurnEvents(t) == SelectSeq(t.trace, IsTurnEvent)

\* after the audio events: at most one content event, with the other parts in
\* their order, absent iff there is no other part
ContentAfterAudio(t, nAudio) ==
    LET ev == TurnEvents(t)
        others == SelectSeq(t.frame.sc.parts, NonPcmPart)
    IN  IF others = <<>>
        THEN Len(ev) = nAudio
        ELSE Len(ev) = nAudio + 1 /\ ev[Len(ev)] = EmitItem("content", others)

\* C8 as claimed: one audio event per audio/pcm part (N of them), in the
\* parts' order, then the content event iff there are other parts
C8_OneAudioEventPerPart ==
    \A i \in DemuxTasks :
        LET t == tasks[i]
            audio == SelectSeq(t.frame.sc.parts, PcmPart)
            ev == TurnEvents(t)
        IN  /\ Len(ev) >= Len(audio)
            /\ \A j \in 1..Len(audio) :
                  Len(ev) >= j /\ ev[j] = EmitItem("audio", Base64ToBytes(audio[j].inlineData.data))
            /\ ContentAfterAudio(t, Len(audio))

\* C8 as amended: one audio event per audio/pcm part whose payload is not
\* empty, in the parts' order, then the content event iff there are other parts
C8_OneAudioEventPerPayload ==
    \A i \in DemuxTasks :
        LET t == tasks[i]
            audio == SelectSeq(t.frame.sc.parts, PcmPartWithPayload)
            ev == TurnEvents(t)
        IN  /\ Len(ev) >= Len(audio)
            /\ \A j \in 1..Len(audio) :
                  ev[j] = EmitItem("audio", Base64ToBytes(audio[j].inlineData.data))
            /\ ContentAfterAudio(t, Len(audio))

C8_Witness ==
    \E i \in DemuxTasks :
        LET ps == tasks[i].frame.sc.parts IN
        /\ Len(ps) = 2
        /\ PcmPartWithPayload(ps[1])
        /\ NonPcmPart(ps[2])
        /\ TurnEvents(tasks[i]) =
              <<EmitItem("audio", Base64ToBytes(ps[1].inlineData.data)), EmitItem("content", <<ps[2]>>)>>

\* the step just taken called disconnect(handle) with a handle that is not
\* the owned one (from outside, or from the error or close listener)
StaleDisconnectStep ==
    /\ last'.op \in {"disconnect", "error", "close"}
    /\ last'.arg # 0
    /\ last'.arg # ws

\* C9: disconnect(handle) with a handle that is not the owned one returns
\* false, leaves this.ws as it was and does not close the owned socket
C9_StaleDisconnectIsNoOp ==
    [][StaleDisconnectStep =>
          /\ last'.ret = FALSE
          /\ ws' = ws
          /\ ws # 0 => sock'[ws] = sock[ws]]_vars

\* a superseded socket's handle was just passed to disconnect while another
\* socket is owned and open
C9_Witness ==
    /\ last.op = "disconnect"
    /\ last.arg \in DOMAIN sock
    /\ ws # 0
    /\ last.arg # ws
    /\ last.ret = FALSE
    /\ sock[last.arg].st = "open"
    /\ sock[last.arg].promise = "resolved"
    /\ sock[ws].st = "open"

\* C10: at most one transport the client has opened and taken is open at a
\* time: an open socket that was owned is the owned one
C10_AtMostOneLive ==
    \A h \in DOMAIN sock :
        (sock[h].st = "open" /\ sock[h].promise = "resolved") => h = ws

\* a socket whose transport failed before it opened
ErroredBeforeOpen(h) == sock[h].st = "closed" /\ ~sock[h].opened

\* C11: when the transport errors before it opens, the promise of that
\* connect call is rejected and no Setup frame, nor any other frame, is ever
\* written to that socket
C11_PreOpenErrorRejectsWithoutSetup ==
    \A h \in DOMAIN sock :
        ErroredBeforeOpen(h) =>
            /\ sock[h].promise = "rejected"
            /\ sock[h].out = <<>>

\* a socket has just failed before opening while the client owns another,
\* open socket that frames can be written to
C11_Witness ==
    /\ last.op = "error"
    /\ ErroredBeforeOpen(last.arg)
    /\ sock[last.arg].promise = "rejected"
    /\ ws # 0
    /\ ws # last.arg
    /\ sock[ws].out # <<>>

\* C12: when the transport errors before it opens, the disconnect the error
\* listener runs closes the socket of that attempt, and the rejection is the
\* Could not connect error with the target address
C12_PreOpenErrorTearsDown ==
    (last.op = "error" /\ ErroredBeforeOpen(last.arg)) =>
        /\ last.ret
        /\ sock[last.arg].reason = CouldNotConnect

\* C13: a connect call with an absent config leaves no socket open, emits no
\* open event and writes no Setup frame
C13_AbsentConfigFailsFast ==
    \A h \in DOMAIN sock :
        sock[h].arg = "null" =>
            /\ sock[h].st # "open"
            /\ sock[h].out = <<>>
            /\ ~(last.op = "open" /\ last.arg = h /\ "open" \in Range(last.evs))

SetupCompleteEvents(t) == {j \in DOMAIN t.trace : t.trace[j] = EmitItem("setupcomplete", <<>>)}

\* C14: once the socket of a connect call that was given a config has opened,
\* the Setup frame is the first frame written to it and the promise is
\* resolved, whether or not a SetupComplete frame has arrived; setupcomplete
\* is emitted only while a SetupComplete frame is processed
C14_SetupSentOnOpen ==
    /\ \A h \in DOMAIN sock :
          (sock[h].arg = "cfg" /\ sock[h].opened) =>
              /\ sock[h].out # <<>>
              /\ sock[h].out[1] = "setup"
              /\ sock[h].promise = "resolved"
    /\ \A i \in DOMAIN tasks :
          SetupCompleteEvents(tasks[i]) # {} => IsSetupCompleteMessage(tasks[i].frame)

SendOps == {"send", "sendRealtimeInput", "sendToolResponse"}

\* C15: a call of send, sendRealtimeInput or sendToolResponse while the
\* client owns no socket throws, writes no frame to any socket, changes
\* nothing else and emits no log event; and a frame is only ever written in
\* the step of the call that sends it, so nothing is kept for later delivery
C15_SendWhileNotConnectedThrows ==
    [][/\ (last'.op \in SendOps /\ ws = 0) =>
              /\ last'.ret = FALSE
              /\ last'.logs = <<>>
              /\ sock' = sock
              /\ ws' = ws
              /\ tasks' = tasks
       /\ \A h \in DOMAIN sock :
              sock'[h].out # sock[h].out =>
                  /\ h = ws' \/ (last'.op = "open" /\ h = ws)
                  /\ last'.ret
                  /\ last'.op \in SendOps \union {"open"}]_vars

\* a send call has just thrown after the client had a connection and gave it up
C15_Witness ==
    /\ last.op \in SendOps
    /\ ~last.ret
    /\ ws = 0
    /\ \E h \in DOMAIN sock : sock[h].promise = "resolved" /\ sock[h].st \in {"closing", "closed"}
    /\ \E h \in DOMAIN sock : sock[h].st = "connecting"

\* C16: the processing of a ToolCall frame never throws out of receive
C16_ToolCallNeverThrows ==
    \A i \in ToolTasks : tasks[i].stage # "threw"

\* the fetches of a ToolCall frame have settled and one of them failed
FetchFailed(t) == \E j \in DOMAIN t.outs : ~t.outs[j].ok
\* the fetches of a ToolCall frame have settled and all of them succeeded
FetchSucceeded(t) == t.outs # <<>> /\ \A j \in DOMAIN t.outs : t.outs[j].ok

IsToolResponse(it) == it.k = "send" /\ "toolResponse" \in DOMAIN it.msg
IsFailureResponse(t, it) ==
    /\ IsToolResponse(it)
    /\ it.msg.toolResponse.functionResponses =
          [j \in 1..Len(t.valid) |->
              [id |-> t.valid[j].id,
               response |-> [error |-> "Failed to fetch PDF content. Remember to use JSON format",
                             example |-> [name |-> "pdf_lookup",
                                          args |-> [pdfUri |-> "your_uri_here"]]]]]

\* the ToolResponse frames of a trace that hold an entry with a text
TextResponses(t) ==
    {a \in DOMAIN t.trace :
        /\ IsToolResponse(t.trace[a])
        /\ \E e \in Range(t.trace[a].msg.toolResponse.functionResponses) : HasText(e)}

\* C17: when a fetch of a ToolCall frame's valid calls has failed, no entry
\* with a text is sent for any call of the frame, and, the client still
\* owning its socket, exactly one ToolResponse carries the fetch-failure
\* error entry for every valid call, in their order
C17_FetchFailureAnswersAllValid ==
    \A i \in ToolTasks :
        LET t == tasks[i] IN
        FetchFailed(t) =>
            /\ \A e \in ResponseEntries(t) : ~HasText(e)
            /\ Finished(i) =>
                  Cardinality({a \in DOMAIN t.trace : IsFailureResponse(t, t.trace[a])}) = 1

\* two valid calls, the first fetch succeeded with a text, the second failed,
\* and the one failure response has been sent
C17_Witness ==
    \E i \in ToolTasks :
        LET t == tasks[i] IN
        /\ Finished(i)
        /\ Len(t.valid) = 2
        /\ t.valid = t.frame.calls
        /\ t.valid[1].id # t.valid[2].id
        /\ t.outs[1].ok /\ t.outs[1].text # ""
        /\ ~t.outs[2].ok
        /\ \E a \in DOMAIN t.trace : IsFailureResponse(t, t.trace[a])

\* the calls of a frame that pass the per-call validation, in frame order
ValidCalls(f) == SelectSeq(f.calls, LAMBDA fc : Verdict(fc) = "valid")

\* C18: when every fetch of a ToolCall frame's valid calls has succeeded and
\* the client still owns its socket, exactly one ToolResponse with text
\* entries is sent: one {id, response: {text}} entry per valid call, in frame
\* order, the text being the result of the fetch of that call's pdfUri, and
\* no entry for any other call
C18_FetchSuccessAnswersInOrder ==
    \A i \in ToolTasks :
        LET t == tasks[i] IN
        (Finished(i) /\ FetchSucceeded(t)) =>
            /\ t.valid = ValidCalls(t.frame)
            /\ SelectSeq(t.trace, LAMBDA it : it.k = "fetch") =
                  [j \in 1..Len(t.valid) |-> FetchItem(FetchUri(t.valid[j]))]
            /\ Cardinality(TextResponses(t)) = 1
            /\ \A a \in TextResponses(t) : IsTextResponse(t, t.trace[a])

\* two valid calls with different ids and different fetch results, answered
C18_Witness ==
    \E i \in ToolTasks :
        LET t == tasks[i] IN
        /\ Finished(i) /\ FetchSucceeded(t)
        /\ Len(t.valid) = 2
        /\ t.valid[1].id # t.valid[2].id
        /\ t.outs[1].text # t.outs[2].text
        /\ \E a \in TextResponses(t) : IsTextResponse(t, t.trace[a])

\* C19: disconnect() while a socket is owned closes it, releases the handle,
\* logs Disconnected and returns true; any disconnect call while none is
\* owned returns false, closes nothing and logs nothing; and once released,
\* a socket is owned again only through a connect whose socket opens
C19_DisconnectIdempotent ==
    [][/\ (last'.op = "disconnect" /\ last'.arg = 0 /\ ws # 0) =>
              /\ last'.ret
              /\ ws' = 0
              /\ sock[ws].st = "open"
              /\ sock' = [sock EXCEPT ![ws].st = "closing"]
              /\ last'.logs = <<Log("client.close", "Disconnected")>>
       /\ (last'.op = "disconnect" /\ ws = 0) =>
              /\ ~last'.ret
              /\ ws' = 0
              /\ sock' = sock
              /\ last'.logs = <<>>
       /\ (ws = 0 /\ ws' # 0) =>
              /\ last'.op = "open"
              /\ last'.ret
              /\ sock[ws'].st = "connecting"
              /\ sock'[ws'].promise = "resolved"]_vars

\* disconnect() was called again while the socket closed by the first call
\* is still closing: it returned false and logged nothing
C19_Witness ==
    /\ last.op = "disconnect"
    /\ last.arg = 0
    /\ ~last.ret
    /\ last.logs = <<>>
    /\ ws = 0
    /\ \E h \in DOMAIN sock : sock[h].st = "closing"

\* the model turns the code-syntax guard stops: a serverContent frame with a
\* model turn, not interrupted, whose serialized parts hold a marker, and
\* whose processing has ended
GuardedTurns ==
    {i \in DOMAIN tasks :
        /\ ~IsToolCallMessage(tasks[i].frame)
        /\ ~IsToolCallCancellationMessage(tasks[i].frame)
        /\ ~IsSetupCompleteMessage(tasks[i].frame)
        /\ IsServerContentMessage(tasks[i].frame)
        /\ tasks[i].frame.sc.hasTurn
        /\ ~tasks[i].frame.sc.interrupted
        /\ HasCodeSyntax(PartsLeaves(tasks[i].frame.sc.parts))
        /\ tasks[i].stage \in {"done", "threw"}}

\* C20: for a model turn whose serialized parts hold a marker, no audio
\* event and no content event with the turn's parts is emitted, exactly one
\* corrective text message is sent, and the same text is emitted as exactly
\* one content event
C20_GuardedTurnGetsContentEvent ==
    \A i \in GuardedTurns :
        LET t == tasks[i] IN
        /\ TurnEvents(t) = <<EmitItem("content", <<ErrorMessagePart>>)>>
        /\ SelectSeq(t.trace, LAMBDA it : it.k = "send") =
              <<SendItem(t.h, ClientContentMessage(<<ErrorMessagePart>>, TRUE))>>

IsEmit(it) == it.k = "emit"

\* C21: a frame that arrived after a ToolCall frame whose fetches are still
\* pending is dispatched without waiting for them: the step that processes
\* it and emits its events is enabled while those fetches are pending
C21_DispatchNotSerialized ==
    \A i, j \in DOMAIN tasks :
        (i < j /\ tasks[i].stage = "fetching" /\ tasks[j].stage = "parsing") =>
            ENABLED ParseDone(j)

\* the fetches of a ToolCall frame are pending while a frame that arrived
\* after it has been processed to its end and has emitted its event
C21_Witness ==
    \E i, j \in DOMAIN tasks :
        /\ i < j
        /\ tasks[i].stage = "fetching"
        /\ tasks[j].stage = "done"
        /\ IsToolCallCancellationMessage(tasks[j].frame)
        /\ last.op = "receive" /\ last.arg = j
        /\ \E a \in DOMAIN tasks[j].trace : IsEmit(tasks[j].trace[a])

\* the four keys in the order receive tests them
Precedence == <<"toolCall", "toolCallCancellation", "setupComplete", "serverContent">>

\* the variant of a frame: its first key in that order
Variant(f) ==
    IF \E k \in 1..4 : Precedence[k] \in f.keys
    THEN Precedence[CHOOSE k \in 1..4 :
                       /\ Precedence[k] \in f.keys
                       /\ \A l \in 1..(k - 1) : Precedence[l] \notin f.keys]
    ELSE "none"

\* the events a variant may trigger
VariantEvents(v) ==
    CASE v = "toolCall" -> {"toolcall"}
      [] v = "toolCallCancellation" -> {"toolcallcancellation"}
      [] v = "setupComplete" -> {"setupcomplete"}
      [] v = "serverContent" -> {"interrupted", "turncomplete", "audio", "content"}
      [] OTHER -> {}

Ended(i) == tasks[i].stage \in {"done", "threw"}

\* C22: a frame is handled as one variant only, the first of toolCall,
\* toolCallCancellation, setupComplete, serverContent whose key it carries:
\* every event it triggers is an event of that variant, and a frame handled
\* as a cancellation or a setupComplete triggers exactly that one event
C22_OneVariantByPrecedence ==
    \A i \in DOMAIN tasks :
        LET t == tasks[i]
            v == Variant(t.frame)
        IN  /\ \A a \in DOMAIN t.trace :
                  IsEmit(t.trace[a]) => t.trace[a].ev \in VariantEvents(v)
            /\ (Ended(i) /\ v = "toolCallCancellation") =>
                  t.trace = <<EmitItem("toolcallcancellation", t.frame.ids)>>
            /\ (Ended(i) /\ v = "setupComplete") =>
                  t.trace = <<EmitItem("setupcomplete", <<>>)>>
            /\ v # "toolCall" => t.valid = <<>> /\ t.stage # "fetching"

\* a frame carrying toolCallCancellation, setupComplete and a complete turn
\* under serverContent has been processed: only the cancellation event
C22_Witness ==
    \E i \in DOMAIN tasks :
        /\ Ended(i)
        /\ tasks[i].frame.keys = {"toolCallCancellation", "setupComplete", "serverContent"}
        /\ tasks[i].frame.sc.hasTurn /\ tasks[i].frame.sc.turnComplete
        /\ tasks[i].trace = <<EmitItem("toolcallcancellation", <<"1">>)>>

\* the step just taken processed the frame of task i
Processed(i) ==
    /\ i \in DOMAIN tasks
    /\ tasks[i].stage = "parsing"
    /\ last'.op = "receive"
    /\ last'.arg = i

\* C23: the processing of a frame with none of the four keys emits no event,
\* sends nothing, does not throw and changes nothing of the client: this.ws,
\* the sockets, the config and the other receive invocations stay as they are
C23_UnmatchedFrameDropped ==
    [][\A i \in DOMAIN tasks :
          (Processed(i) /\ tasks[i].frame.keys \cap FrameKeys = {}) =>
              /\ last'.ret
              /\ tasks' = [tasks EXCEPT ![i].stage = "done"]
              /\ tasks'[i].trace = <<>>
              /\ ws' = ws
              /\ sock' = sock
              /\ config' = config
              /\ hook' = hook]_vars

\* a frame of no known shape has just been processed and dropped while the
\* client owns its open socket
C23_Witness ==
    /\ last.op = "receive"
    /\ last.ret
    /\ tasks[last.arg].frame.keys = {}
    /\ tasks[last.arg].stage = "done"
    /\ tasks[last.arg].trace = <<>>
    /\ ws # 0
    /\ sock[ws].st = "open"

NonLookup(fc) == fc.name # "pdf_lookup"
AnsweredId(t, id) == \E e \in ResponseEntries(t) : e.id = id

\* C24 as claimed: a call whose name is not pdf_lookup is never fetched, and
\* no ToolResponse entry carrying its id is sent for its frame, whatever its
\* args
C24_NonLookupNeverAnswered ==
    \A i \in ToolTasks :
        LET t == tasks[i] IN
        DistinctIds(t.frame) =>
            \A fc \in Range(t.frame.calls) :
                NonLookup(fc) => ~Executed(t, fc) /\ ~AnsweredId(t, fc.id)

\* C24 as amended: in a frame whose call ids are present and distinct, a
\* call whose name is not pdf_lookup is never fetched, and an entry carrying
\* its id is sent only by the rejection of the whole frame, that is when the
\* serialized frame holds a code-syntax marker and the call is the first
C24_NonLookupAnsweredOnlyByFrameRejection ==
    \A i \in ToolTasks :
        LET t == tasks[i] IN
        DistinctIds(t.frame) =>
            \A j \in DOMAIN t.frame.calls :
                LET fc == t.frame.calls[j] IN
                NonLookup(fc) =>
                    /\ ~Executed(t, fc)
                    /\ \A x \in Fetches(t) : \E v \in Range(t.valid) : x.uri = FetchUri(v)
                    /\ AnsweredId(t, fc.id) => (HasCodeSyntax(FrameLeaves(t.frame)) /\ j = 1)

\* a frame free of markers with a call of another name and a valid pdf_lookup
\* call has been processed: the one is skipped, the other answered
C24_Witness ==
    \E i \in ToolTasks :
        LET t == tasks[i] IN
        /\ Finished(i)
        /\ DistinctIds(t.frame)
        /\ Len(t.frame.calls) = 2
        /\ NonLookup(t.frame.calls[1])
        /\ t.valid = <<t.frame.calls[2]>>
        /\ ~AnsweredId(t, t.frame.calls[1].id)
        /\ AnsweredId(t, t.frame.calls[2].id)

\* a pdf_lookup call whose args are a mapping with the one key pdfUri
OnlyPdfUri(fc) ==
    /\ fc.name = "pdf_lookup"
    /\ IsPlainObject(fc.args)
    /\ DOMAIN fc.args.m = {"pdfUri"}

\* C25: in a frame that is not rejected as a whole, a pdf_lookup call whose
\* only argument pdfUri is empty or is no string is not fetched and gets a
\* corrective entry for its id
C25_EmptyOrNonStringUriRejected ==
    \A i \in ToolTasks :
        LET t == tasks[i] IN
        (Finished(i) /\ DistinctIds(t.frame) /\ ~HasCodeSyntax(FrameLeaves(t.frame))) =>
            \A fc \in Range(t.frame.calls) :
                (OnlyPdfUri(fc) /\ (fc.args.m.pdfUri.ty # "string" \/ fc.args.m.pdfUri.s = "")) =>
                    /\ ~Executed(t, fc)
                    /\ \E e \in ResponseEntries(t) : e.id = fc.id /\ IsCorrective(e)

\* C26: the processing of a frame handled as a ToolCallCancellation emits
\* exactly one event, toolcallcancellation with the frame's ids, sends
\* nothing, does not throw and changes nothing of the client: this.ws, the
\* sockets, the config and the other receive invocations stay as they are
C26_CancellationOneEventNoState ==
    [][\A i \in DOMAIN tasks :
          (Processed(i) /\ Variant(tasks[i].frame) = "toolCallCancellation") =>
              /\ last'.ret
              /\ tasks' = [tasks EXCEPT
                              ![i].stage = "done",
                              ![i].trace = <<EmitItem("toolcallcancellation", tasks[i].frame.ids)>>]
              /\ ws' = ws
              /\ sock' = sock
              /\ config' = config
              /\ hook' = hook]_vars

\* a cancellation of two ids has just been processed
C26_Witness ==
    /\ last.op = "receive"
    /\ last.ret
    /\ tasks[last.arg].frame.keys = {"toolCallCancellation"}
    /\ Len(tasks[last.arg].frame.ids) = 2
    /\ tasks[last.arg].stage = "done"
    /\ tasks[last.arg].trace = <<EmitItem("toolcallcancellation", tasks[last.arg].frame.ids)>>

\* the ids of task i cancelled by a frame processed while the fetches of
\* task i were pending
CancelledInFlight(i) ==
    UNION {Range(tasks[j].frame.ids) :
             j \in {k \in DOMAIN tasks :
                      /\ Variant(tasks[k].frame) = "toolCallCancellation"
                      /\ tasks[k].stage = "done"
                      /\ i \in tasks[k].during}}

\* the step just taken settled the fetches of task i
Settled(i) ==
    /\ i \in DOMAIN tasks
    /\ tasks[i].stage = "fetching"
    /\ last'.op = "settle"
    /\ last'.arg = i

\* C27: a cancellation processed while the fetches of a ToolCall frame are
\* pending neither stops them from settling nor suppresses the answer: when
\* they settle with the client owning a socket, the ToolResponse sent then
\* has an entry for every valid call, the cancelled ids included
C27_CancelledFetchStillAnswered ==
    [][\A i \in DOMAIN tasks :
          (Settled(i) /\ CancelledInFlight(i) # {}) =>
              /\ ws # 0 => last'.ret
              /\ last'.ret =>
                    \E a \in (Len(tasks[i].trace) + 1)..Len(tasks'[i].trace) :
                        LET it == tasks'[i].trace[a] IN
                        /\ IsToolResponse(it)
                        /\ \A fc \in Range(tasks[i].valid) :
                              \E e \in Range(it.msg.toolResponse.functionResponses) :
                                  e.id = fc.id]_vars

\* the fetch of call 1 has just succeeded and its text has been sent, after a
\* cancellation of id 1 was processed while that fetch was in flight
C27_Witness ==
    \E i \in DOMAIN tasks :
        /\ last.op = "settle" /\ last.arg = i /\ last.ret
        /\ tasks[i].stage = "done"
        /\ "1" \in CancelledInFlight(i)
        /\ Len(tasks[i].valid) = 1
        /\ tasks[i].valid[1].id = "1"
        /\ tasks[i].outs[1].ok
        /\ \E e \in ResponseEntries(tasks[i]) : e.id = "1" /\ HasText(e)

\* the frames handled as server content that carry turnComplete and a model
\* turn and are not interrupted
CompleteTurns ==
    {i \in DOMAIN tasks :
        /\ Variant(tasks[i].frame) = "serverContent"
        /\ IsTurnComplete(tasks[i].frame.sc)
        /\ IsModelTurn(tasks[i].frame.sc)
        /\ ~IsInterrupted(tasks[i].frame.sc)}

EventsNamed(t, ev) == SelectSeq(t.trace, LAMBDA it : it.k = "emit" /\ it.ev = ev)

\* C28: a ServerContent frame with turnComplete and a modelTurn, not
\* interrupted, emits turncomplete first and exactly once, and then, in the
\* same pass, the turn's events: none of its effects exists before the pass
\* and, for a turn the code-syntax guard lets through, one audio event per
\* audio part with a payload and one content event when other parts remain
C28_TurnCompleteFirstThenTurn ==
    \A i \in CompleteTurns :
        LET t == tasks[i]
            ps == t.frame.sc.parts
        IN  /\ ~Ended(i) => t.trace = <<>>
            /\ Ended(i) =>
                  /\ Len(t.trace) >= 1
                  /\ t.trace[1] = EmitItem("turncomplete", <<>>)
                  /\ Len(EventsNamed(t, "turncomplete")) = 1
                  /\ ~HasCodeSyntax(PartsLeaves(ps)) =>
                        /\ Len(EventsNamed(t, "audio")) =
                              Len(SelectSeq(ps, LAMBDA p : IsAudioPart(p) /\ p.inlineData.data # ""))
                        /\ Len(EventsNamed(t, "content")) =
                              (IF \E a \in DOMAIN ps : ~IsAudioPart(ps[a]) THEN 1 ELSE 0)
                        /\ Len(t.trace) = 1 + Len(EventsNamed(t, "audio"))
                                             + Len(EventsNamed(t, "content"))

C28_Witness ==
    \E i \in CompleteTurns :
        /\ tasks[i].stage = "done"
        /\ Len(tasks[i].trace) = 3
        /\ \A a \in 1..3 : IsEmit(tasks[i].trace[a])
        /\ tasks[i].trace[1].ev = "turncomplete"
        /\ tasks[i].trace[2].ev = "audio"
        /\ tasks[i].trace[3].ev = "content"

\* the transport of socket h closes in this step
Closes(h) ==
    /\ h \in DOMAIN sock
    /\ sock[h].st # "closed"
    /\ last'.op = "close"
    /\ last'.arg = h

\* C29: when the transport the client owns closes, the client releases the
\* handle, so that a send throws, and emits one close event; an explicit
\* disconnect leaves no handle owned, and when the transport it closed
\* reports its close, one close event is emitted, nothing is closed again
\* and the handle owned by then is kept
C29_CloseEndsDisconnected ==
    [][/\ \A h \in DOMAIN sock :
            /\ (Closes(h) /\ ws = h) =>
                  /\ ws' = 0
                  /\ SendDirectThrows(ws')
                  /\ last'.evs = <<"close">>
                  /\ sock' = [sock EXCEPT ![h].st = "closed"]
            /\ (Closes(h) /\ sock[h].st = "closing") =>
                  /\ ~last'.ret
                  /\ ws' = ws
                  /\ last'.evs = <<"close">>
                  /\ sock' = [sock EXCEPT ![h].st = "closed"]
       /\ (last'.op = "disconnect" /\ last'.ret) =>
            /\ ws' = 0
            /\ SendDirectThrows(ws')
            /\ sock'[ws].st = "closing"]_vars

\* the owned transport has closed by itself: the handle is released and the
\* close event was emitted
C29_Witness ==
    /\ last.op = "close"
    /\ last.ret
    /\ last.evs = <<"close">>
    /\ ws = 0
    /\ sock[last.arg].st = "closed"
    /\ sock[last.arg].promise = "resolved"

\* C30: the ToolResponse that answers a ToolCall frame once its fetches have
\* settled is written to the transport the frame was received on, never to
\* a connection made after the client disconnected from that transport
C30_ResponseOnReceivingTransport ==
    \A i \in DOMAIN tasks :
        (Finished(i) /\ tasks[i].valid # <<>> /\ sock[tasks[i].h].st = "closing") =>
            \A a \in DOMAIN tasks[i].trace :
                IsToolResponse(tasks[i].trace[a]) => tasks[i].trace[a].h = tasks[i].h

\* the effects the step just taken added to the trace of task i
NewEffects(i) ==
    {tasks'[i].trace[a] : a \in (Len(tasks[i].trace) + 1)..Len(tasks'[i].trace)}

\* C31: a frame is processed with effect only while the client owns the
\* transport it arrived on: when its parsing completes, or its fetches
\* settle, after that transport was disconnected or superseded, no event is
\* emitted and nothing is sent
C31_OnlyOwnedTransportHasEffects ==
    [][\A i \in DOMAIN tasks :
          ((Processed(i) \/ Settled(i)) /\ ws # tasks[i].h) =>
              \A it \in NewEffects(i) : it.k \notin {"emit", "send"}]_vars

\* C32: events follow the arrival order of the frames of one connection: an
\* earlier frame emits no event once a later frame has emitted one, and so
\* the toolcall event of a ToolCall frame, emitted when its fetches settle,
\* precedes every event of the frames processed while they were pending
C32_EventsInArrivalOrder ==
    [][\A i, j \in DOMAIN tasks :
          (/\ i < j
           /\ tasks[i].h = tasks[j].h
           /\ Settled(i)
           /\ i \in tasks[j].during
           /\ \E it \in NewEffects(i) : IsEmit(it)) =>
              \A a \in DOMAIN tasks[j].trace : ~IsEmit(tasks[j].trace[a])]_vars

\* C33: in useLiveAPI, while the client owns the open transport of the last
\* connect, connected stays true: the close event of an earlier transport,
\* disconnected by the clean-connection step of that connect, does not
\* reset it
C33_StaleCloseKeepsConnected ==
    [][\A h \in DOMAIN sock :
          (/\ Closes(h)
           /\ sock[h].st = "closing"
           /\ ws # 0
           /\ ws # h
           /\ sock[ws].st = "open"
           /\ hook.connected) => hook'.connected]_vars

\* the places (message, entry) of the ToolResponse entries carrying an id
\* among the messages a receive() invocation has sent
EntriesFor(t, id) ==
    UNION {{<<a, b>> : b \in {c \in DOMAIN t.trace[a].msg.toolResponse.functionResponses :
                                t.trace[a].msg.toolResponse.functionResponses[c].id = id}} :
             a \in {x \in DOMAIN t.trace : IsToolResponse(t.trace[x])}}

\* C34: for a ToolCall frame with pairwise distinct ids, each call id has at
\* most one entry over all the ToolResponse messages sent for the frame
C34_OneEntryPerId ==
    \A i \in ToolTasks :
        DistinctIds(tasks[i].frame) =>
            \A id \in FrameIds(tasks[i].frame) : Cardinality(EntriesFor(tasks[i], id)) <= 1

\* a frame of two calls has been answered in two messages, a corrective
\* entry for the rejected call and a text entry for the valid one
C34_Witness ==
    \E i \in ToolTasks :
        LET t == tasks[i] IN
        /\ Finished(i)
        /\ DistinctIds(t.frame)
        /\ Len(t.frame.calls) = 2
        /\ Len(t.valid) = 1
        /\ Cardinality({a \in DOMAIN t.trace : IsToolResponse(t.trace[a])}) = 2
        /\ \A id \in FrameIds(t.frame) : Cardinality(EntriesFor(t, id)) = 1
        /\ \E e \in ResponseEntries(t) : "text" \in DOMAIN e.response
        /\ \E e \in ResponseEntries(t) : "error" \in DOMAIN e.response

\* the shape validation lets through: name pdf_lookup, args a mapping with
\* the single key pdfUri, no disallowed pattern in the serialized args
AllowedShape(fc) ==
    /\ fc.name = "pdf_lookup"
    /\ IsPlainObject(fc.args)
    /\ DOMAIN fc.args.m = {"pdfUri"}
    /\ \A s \in JsonLeaves(fc.args) : Occ(s) \cap InvalidPatterns = {}

\* the allowed shape with a non-empty string as pdfUri
WellFormed(fc) ==
    /\ AllowedShape(fc)
    /\ fc.args.m["pdfUri"].ty = "string"
    /\ fc.args.m["pdfUri"].s # ""

\* the invocations of fetchPdfText in a trace, in order
FetchSeq(t) == SelectSeq(t.trace, LAMBDA it : it.k = "fetch")

\* C35: fetchPdfText is invoked once for each call that passed validation,
\* in their order, and such a call has the allowed shape; no call of a frame
\* rejected as a whole is fetched; and in a frame not rejected as a whole
\* whose processing did not throw, every call of the allowed shape with a
\* non-empty string pdfUri is executed
C35_FetchOncePerValidCall ==
    \A i \in ToolTasks :
        LET t == tasks[i]
            calls == t.frame.calls
            rejected == HasCodeSyntax(FrameLeaves(t.frame))
        IN  /\ FetchSeq(t) = [j \in 1..Len(t.valid) |-> FetchItem(FetchUri(t.valid[j]))]
            /\ \A j \in DOMAIN t.valid : AllowedShape(t.valid[j])
            /\ Len(t.valid) <= Len(SelectSeq(calls, AllowedShape))
            /\ rejected => FetchSeq(t) = <<>>
            /\ (t.stage \in {"fetching", "done"} /\ ~rejected) =>
                  SelectSeq(t.valid, WellFormed) = SelectSeq(calls, WellFormed)

\* a frame of a rejected call followed by a well-formed one: the fetch was
\* invoked once, for the well-formed call, and has settled
C35_Witness ==
    \E i \in ToolTasks :
        LET t == tasks[i] IN
        /\ Finished(i)
        /\ Len(t.frame.calls) = 2
        /\ t.frame.calls[1].name = "pdf_lookup"
        /\ ~AllowedShape(t.frame.calls[1])
        /\ WellFormed(t.frame.calls[2])
        /\ t.valid = <<t.frame.calls[2]>>
        /\ FetchSeq(t) = <<FetchItem(FetchUri(t.frame.calls[2]))>>

Setups(h) == {a \in DOMAIN sock[h].out : sock[h].out[a] = "setup"}

\* C36: on every transport that has opened the Setup frame is written exactly
\* once and is the first frame written: no frame of a send call, whether made
\* from outside, from a listener of the open event or while an earlier
\* transport is owned, precedes it
C36_SetupFirstAndOnce ==
    \A h \in DOMAIN sock :
        /\ Cardinality(Setups(h)) <= 1
        /\ sock[h].out # <<>> => sock[h].out[1] = "setup"
        /\ sock[h].opened => Setups(h) = {1}

\* the frames handled as server content whose interrupted flag is set
InterruptedFrames ==
    {i \in DOMAIN tasks :
        /\ Variant(tasks[i].frame) = "serverContent"
        /\ IsInterrupted(tasks[i].frame.sc)}

\* C37: a ServerContent frame whose interrupted flag is set emits one
\* interrupted event and has no other effect, whether or not it also carries
\* turnComplete or a modelTurn: no turncomplete, audio or content event, no
\* outbound message, no throw
C37_InterruptedOnly ==
    \A i \in InterruptedFrames :
        /\ tasks[i].stage \in {"parsing", "done"}
        /\ tasks[i].stage = "parsing" => tasks[i].trace = <<>>
        /\ tasks[i].stage = "done" => tasks[i].trace = <<EmitItem("interrupted", <<>>)>>
        /\ tasks[i].valid = <<>>

\* an interrupted frame that also carries turnComplete and a model turn of an
\* audio part and a text part has been processed
C37_Witness ==
    \E i \in InterruptedFrames :
        /\ tasks[i].stage = "done"
        /\ IsTurnComplete(tasks[i].frame.sc)
        /\ IsModelTurn(tasks[i].frame.sc)
        /\ Len(tasks[i].frame.sc.parts) = 2
        /\ IsAudioPart(tasks[i].frame.sc.parts[1])
        /\ ~IsAudioPart(tasks[i].frame.sc.parts[2])
        /\ tasks[i].trace = <<EmitItem("interrupted", <<>>)>>

\* the step just taken was a call of useLiveAPI.connect
HookConnectStep == last'.op = "hook.connect"

\* C38: useLiveAPI.connect validates the config before it touches the
\* client: with a config that has no tools array, no pdf_lookup declaration
\* or no system-instruction text it throws, and client.disconnect and
\* client.connect are not called, so the owned socket, every socket and the
\* connected state stay as they are; with the config without tools that
\* ControlTray installs after a PDF is selected, a connect attempt throws
\* Tools configuration is required and creates no socket
C38_InvalidConfigLeavesClientUntouched ==
    [][/\ (/\ HookConnectStep
           /\ \/ hook.config.tools # "array"
              \/ ~hook.config.pdfLookup
              \/ ~hook.config.text) =>
             /\ ~last'.ret
             /\ last'.err # ""
             /\ ws' = ws
             /\ sock' = sock
             /\ config' = config
             /\ hook'.connected = hook.connected
       /\ (HookConnectStep /\ hook.pdfData # "null" /\ hook.config = PdfConfig) =>
             /\ last'.err = "Tools configuration is required"
             /\ Len(sock') = Len(sock)]_vars

\* with a PDF selected and the config without tools installed, a connect
\* attempt has just failed while the client owns an open socket, which is
\* still open and owned
C38_Witness ==
    /\ last.op = "hook.connect"
    /\ ~last.ret
    /\ hook.pdfData # "null"
    /\ hook.config = PdfConfig
    /\ last.err = "Tools configuration is required"
    /\ ws # 0
    /\ sock[ws].st = "open"

====
